---- MODULE Spec2Model ----
(***************************************************************************)
(* Fixed-point (q16) numerically-controlled oscillator with phase-locked   *)
(* loop, src/nco/src/nco_crcq16.c, and the OFDM frame helpers of           *)
(* src/multicarrier/src/ofdmframe.common.c.                                *)
(*                                                                         *)
(* q16_t is a signed 16-bit integer holding a fixed-point number; the      *)
(* number format, the constants q16_one/q16_pi/q16_2pi, the float<->fixed  *)
(* conversion, the complex multiply cq16_mul, q16_sin/q16_cos and the      *)
(* second-order filter iirfiltsos_rrrq16 live in liquidfpm.h and           *)
(* liquid.internal.h, which are not part of the sources at hand; they are  *)
(* modelled from their documented contract (7 integer bits, 9 fractional   *)
(* bits, conversion by scaling and adding one half).                       *)
(***************************************************************************)
EXTENDS Integers, Sequences, FiniteSets, TLC

VARIABLES
    pc,          \* "none" before create, "live" while the object exists, "exit" after exit(1)
    build,       \* how the build resolves out-of-range float->integer conversions
    type,        \* q->type
    theta,       \* q->theta, NCO phase
    d_theta,     \* q->d_theta, NCO frequency
    sintab,      \* q->sintab[256]
    index,       \* q->index
    sine,        \* q->sine
    cosine,      \* q->cosine
    bandwidth,   \* q->bandwidth
    zeta,        \* q->zeta
    a,           \* q->a[3]
    b,           \* q->b[3]
    pll_filter,  \* q->pll_filter
    x_in,        \* samples handed to the last mixing call
    y_out,       \* samples written by the last mixing call
    last,        \* the last call: its name, argument and the object before it
    nsteps,      \* step() calls since the phase or the frequency was last set
    theta_start, \* the phase when nsteps was last 0
    ret,         \* what the last call returned
    nops,        \* calls made so far
    ofdm         \* the last ofdmframe call: its arguments, outputs and outcome

vars == <<pc, build, type, theta, d_theta, sintab, index, sine, cosine,
          bandwidth, zeta, a, b, pll_filter, x_in, y_out, last, nsteps,
          theta_start, ret, nops, ofdm>>

----------------------------------------------------------------------------
(* Machine integers *)

Abs(n) == IF n < 0 THEN -n ELSE n

RECURSIVE Pow2(_)
Pow2(k) == IF k <= 0 THEN 1 ELSE 2 * Pow2(k - 1)

RECURSIVE BitLen(_)
BitLen(n) == IF n <= 0 THEN 0 ELSE 1 + BitLen(n \div 2)

\* conversion of an int to int16_t (two's complement wrap)
Int16(n) == ((n + 32768) % 65536) - 32768

\* F(v), with v evaluated once
With(v, F(_)) == CHOOSE r \in {F(w) : w \in {v}} : TRUE

\* C integer division and float->integer conversion round toward zero
Trunc(num, den) == IF num >= 0 THEN num \div den ELSE -((-num) \div den)

LIQUID_NCO == "LIQUID_NCO"
LIQUID_VCO == "LIQUID_VCO"

----------------------------------------------------------------------------
(* q16 fixed-point primitives *)

q16_fracbits == 9

q16_one == Pow2(q16_fracbits)

\* (q16_t)(x * q16_one + 0.5f) for x = num/den, den > 0
q16_float_to_fixed(num, den) == Trunc(2 * num * q16_one + den, 2 * den)

q16_pi == q16_float_to_fixed(31416, 10000)

q16_2pi == q16_float_to_fixed(62832, 10000)

q16_pi_by_2 == q16_float_to_fixed(15708, 10000)

\* (q16_t)(((int32_t)x * (int32_t)y) >> q16_fracbits)
q16_mul(x, y) == Int16((x * y) \div q16_one)

\* complex product of two cq16_t values <<real, imag>>
cq16_mul(u, v) ==
    << Int16(q16_mul(u[1], v[1]) - q16_mul(u[2], v[2])),
       Int16(q16_mul(u[1], v[2]) + q16_mul(u[2], v[1])) >>

----------------------------------------------------------------------------
(* The oscillator *)

\* q16_float_to_fixed(sinf(2*pi*i/256)) for i = 0..255 (entry i+1 holds i)
SineTable ==
    << 0,   13,   25,   38,   50,   63,   75,   88,  100,  112,  124,  137,  149,  161,  172,  184,
        196,  207,  219,  230,  241,  252,  263,  274,  284,  295,  305,  315,  325,  334,  344,  353,
        362,  371,  379,  388,  396,  404,  411,  419,  426,  433,  439,  445,  452,  457,  463,  468,
        473,  478,  482,  486,  490,  493,  497,  500,  502,  504,  506,  508,  510,  511,  511,  512,
        512,  512,  511,  511,  510,  508,  506,  504,  502,  500,  497,  493,  490,  486,  482,  478,
        473,  468,  463,  457,  452,  445,  439,  433,  426,  419,  411,  404,  396,  388,  379,  371,
        362,  353,  344,  334,  325,  315,  305,  295,  284,  274,  263,  252,  241,  230,  219,  207,
        196,  184,  172,  161,  149,  137,  124,  112,  100,   88,   75,   63,   50,   38,   25,   13,
          0,  -12,  -24,  -37,  -49,  -62,  -74,  -87,  -99, -111, -123, -136, -148, -160, -171, -183,
       -195, -206, -218, -229, -240, -251, -262, -273, -283, -294, -304, -314, -324, -333, -343, -352,
       -361, -370, -378, -387, -395, -403, -410, -418, -425, -432, -438, -444, -451, -456, -462, -467,
       -472, -477, -481, -485, -489, -492, -496, -499, -501, -503, -505, -507, -509, -510, -510, -511,
       -511, -511, -510, -510, -509, -507, -505, -503, -501, -499, -496, -492, -489, -485, -481, -477,
       -472, -467, -462, -456, -451, -444, -438, -432, -425, -418, -410, -403, -395, -387, -378, -370,
       -361, -352, -343, -333, -324, -314, -304, -294, -283, -273, -262, -251, -240, -229, -218, -206,
       -195, -183, -171, -160, -148, -136, -123, -111,  -99,  -87,  -74,  -62,  -49,  -37,  -24,  -12 >>

\* the largest difference between two neighbouring table entries
TableStep ==
    CHOOSE d \in 0..q16_one :
        /\ \A i \in 1..256 : Abs(SineTable[(i % 256) + 1] - SineTable[i]) <= d
        /\ \E i \in 1..256 : Abs(SineTable[(i % 256) + 1] - SineTable[i]) = d

\* the same with the correction made for a phase above pi only
nco_crcq16_constrain_phase_above(th) ==
    IF th > q16_pi THEN Int16(th - q16_2pi) ELSE th

\* constrain phase: one correction by 2*pi
nco_crcq16_constrain_phase(th) ==
    IF th > q16_pi THEN Int16(th - q16_2pi)
    ELSE IF th < -q16_pi THEN Int16(th + q16_2pi)
    ELSE th

----------------------------------------------------------------------------
(* Single-precision arithmetic of the table index, line 418:               *)
(*   (unsigned int)(theta*40.743665f + 512.0f + 0.5f) & 0xff               *)
(* 40.743665f is 10680707 * 2^-18.  Every intermediate result is rounded   *)
(* to 24 significant bits, ties to even.                                   *)

\* n >= 0 with its d low bits dropped, rounded to nearest, ties to even
RoundEven(n, d) ==
    IF d <= 0 THEN n
    ELSE LET q == n \div Pow2(d)
             r == n % Pow2(d)
             h == Pow2(d - 1)
         IN  IF r > h \/ (r = h /\ q % 2 = 1) THEN q + 1 ELSE q

\* the integer n rounded to 24 significant bits
F32(n) ==
    LET m == Abs(n)
        d == BitLen(m) - 24
        r == IF d <= 0 THEN m ELSE RoundEven(m, d) * Pow2(d)
    IN  IF n < 0 THEN -r ELSE r

\* theta*40.743665f as [mant, exp]: the float mant * 2^(exp-18).
\* The 40-bit product is held as hi*2^12 + lo.
F32MulScale(th) ==
    LET t  == Abs(th)
        lo0 == t * (10680707 % 4096)
        hi == t * (10680707 \div 4096) + lo0 \div 4096
        lo == lo0 % 4096
        d  == IF BitLen(hi) > 12 THEN BitLen(hi) - 12 ELSE 0
        q  == IF d <= 12 THEN hi * Pow2(12 - d) + lo \div Pow2(d)
              ELSE hi \div Pow2(d - 12)
        r  == IF d <= 12 THEN lo % Pow2(d)
              ELSE (hi % Pow2(d - 12)) * 4096 + lo
        h  == Pow2(d - 1)
        up == d > 0 /\ (r > h \/ (r = h /\ q % 2 = 1))
        m  == IF up THEN q + 1 ELSE q
    IN  [mant |-> IF th < 0 THEN -m ELSE m, exp |-> d]

\* the same with a bias of 128 in place of 512
F32IndexValue_bias128(th) ==
    With(F32MulScale(th), LAMBDA p :
         [mant |-> F32(F32(p.mant + 128 * Pow2(18 - p.exp)) + Pow2(17 - p.exp)),
          exp |-> p.exp])

\* theta*40.743665f + 512.0f + 0.5f as [mant, exp]
F32IndexValue(th) ==
    With(F32MulScale(th), LAMBDA p :
         [mant |-> F32(F32(p.mant + 512 * Pow2(18 - p.exp)) + Pow2(17 - p.exp)),
          exp |-> p.exp])

\* (unsigned int)v & 0xff.  Converting a negative float to unsigned int is
\* undefined: a build that converts through a wider signed integer keeps the
\* low bits of the truncated value ("wrap"), one with a saturating
\* conversion instruction gives 0 ("sat").
F32ToIndex(v, bld) ==
    IF v.mant < 0 /\ bld = "sat" THEN 0
    ELSE Trunc(v.mant, Pow2(18 - v.exp)) % 256

nco_index(th, bld) == With(F32IndexValue(th), LAMBDA v : F32ToIndex(v, bld))

\* the same with the index stored before it is masked with 0xff
nco_crcq16_compute_sincos_nco_unmasked(th, tab, bld) ==
    With(F32IndexValue(th), LAMBDA v :
         With(IF v.mant < 0 /\ bld = "sat" THEN 0
              ELSE Trunc(v.mant, Pow2(18 - v.exp)), LAMBDA i :
              [index |-> i, sine |-> tab[(i % 256) + 1],
               cosine |-> tab[((i + 64) % 256) + 1]]))

\* nco_crcq16_compute_sincos_nco: [index, sine, cosine]
nco_crcq16_compute_sincos_nco(th, tab, bld) ==
    With(nco_index(th, bld), LAMBDA i :
         [index |-> i, sine |-> tab[i + 1], cosine |-> tab[((i + 64) % 256) + 1]])

\* q16_sin, q16_cos of liquidfpm: the sine and cosine of the angle th
\* (radians, q16), to the resolution of the 256-point table
q16_sin(th) == SineTable[(((2 * 256 * th + q16_2pi) \div (2 * q16_2pi)) % 256) + 1]

q16_cos(th) == SineTable[((((2 * 256 * th + q16_2pi) \div (2 * q16_2pi)) + 64) % 256) + 1]

\* nco_crcq16_compute_sincos_vco: the index is left as it was
nco_crcq16_compute_sincos_vco(th, i) ==
    [index |-> i, sine |-> q16_sin(th), cosine |-> q16_cos(th)]

\* the sine table nco_crcq16_create fills
create_sintab == SineTable

\* q->compute_sincos(q), the method chosen by create(), on the object o
\* the same with the table method whatever the type
compute_sincos_table_only(o) ==
    nco_crcq16_compute_sincos_nco(o.theta, sintab, build)

compute_sincos(o) ==
    IF o.type = LIQUID_NCO THEN nco_crcq16_compute_sincos_nco(o.theta, sintab, build)
    ELSE nco_crcq16_compute_sincos_vco(o.theta, o.index)

----------------------------------------------------------------------------
(* The loop filter, iirfiltsos_rrrq16: a second-order section run in       *)
(* direct form I on q16 values.                                            *)

iirfiltsos_rrrq16_create(fb, fa) ==
    [b |-> fb, a |-> fa, x |-> <<0, 0, 0>>, y |-> <<0, 0, 0>>]

iirfiltsos_rrrq16_set_coefficients(f, fb, fa) == [f EXCEPT !.b = fb, !.a = fa]

iirfiltsos_rrrq16_clear(f) == [f EXCEPT !.x = <<0, 0, 0>>, !.y = <<0, 0, 0>>]

\* the filter after one input sample u; its output is y[1]
iirfiltsos_rrrq16_execute_df1(f, u) ==
    LET x1 == <<u, f.x[1], f.x[2]>>
        v  == Int16(q16_mul(x1[1], f.b[1]) + q16_mul(x1[2], f.b[2])
                    + q16_mul(x1[3], f.b[3]))
        y0 == Int16(v - q16_mul(f.y[1], f.a[2]) - q16_mul(f.y[2], f.a[3]))
    IN  [f EXCEPT !.x = x1, !.y = <<y0, f.y[1], f.y[2]>>]

----------------------------------------------------------------------------
(* Loop coefficients, nco_crcq16_pll_set_bandwidth lines 245-259.  The      *)
(* floats are assigned to q16_t fields without q16_float_to_fixed, so each *)
(* is truncated toward zero.  With K = 1000, zeta = 1/sqrtf(2) and wn the  *)
(* integer held in _b:                                                     *)
(*   b0 = 2K(1 + t2/2) = 1999 + 1414.2135/wn      b1 = 4K                  *)
(*   b2 = 2K(1 - t2/2) = 2001 - 1414.2135/wn                               *)
(*   a0 =  1 + t1/2    =  1 + 500/wn^2            a1 = -1 + 500/wn^2       *)
(* (the single-precision results truncate to the same integers as these    *)
(* quotients for every wn in 1..32767).  For wn = 0 the quotients are      *)
(* infinite and the float->int16 conversion is undefined.                  *)

\* (q16_t)(+-infinity): undefined.  "wrap": the conversion instruction
\* returns 0x80000000, whose low 16 bits are 0; "sat": it saturates to
\* 0x7fffffff (low 16 bits -1) or 0x80000000 (low 16 bits 0).
Int16OfInfinity(positive, bld) == IF bld = "sat" /\ positive THEN -1 ELSE 0

pll_b(wn, bld) ==
    IF wn = 0
    THEN << Int16OfInfinity(TRUE, bld), 4000, Int16OfInfinity(FALSE, bld) >>
    ELSE << 1999 + 14142135 \div (wn * 10000),
            4000,
            2000 - 14142135 \div (wn * 10000) >>

\* the same with a[1] of the opposite sign, -(1 + t1/2)
pll_a_negated(wn, bld) ==
    IF wn = 0
    THEN << Int16OfInfinity(TRUE, bld), Int16OfInfinity(FALSE, bld), 0 >>
    ELSE << Trunc(wn * wn + 500, wn * wn), -Trunc(wn * wn + 500, wn * wn), 0 >>

pll_a(wn, bld) ==
    IF wn = 0
    THEN << Int16OfInfinity(TRUE, bld), Int16OfInfinity(TRUE, bld), 0 >>
    ELSE << Trunc(wn * wn + 500, wn * wn), Trunc(500 - wn * wn, wn * wn), 0 >>

----------------------------------------------------------------------------
(* Bounds and the arguments the calls are tried with *)

MaxOps == 3

MaxBlock == 2

PhaseArgs == {0, 1, q16_pi_by_2, q16_pi, -q16_pi, 10 * q16_one}

\* 2*pi/256 as a q16 number, and two larger frequencies
q16_f256 == q16_float_to_fixed(245437, 10000000)

FreqArgs == {q16_f256, 1000, -700}

BandwidthArgs == {-1, 0, 1, q16_float_to_fixed(1, 10)}

PhaseErrors == {5, -3}

Samples == { <<100, -37>>, <<30000, 30000>> }

Blocks == UNION { [1..n -> Samples] : n \in 0..MaxBlock }

Types == {LIQUID_NCO, LIQUID_VCO, "LIQUID_OTHER"}

Builds == {"wrap", "sat"}

----------------------------------------------------------------------------
(* The object as a record, and the calls as functions of it *)

\* the fields of the object, its sine table apart
Object ==
    [type |-> type, theta |-> theta, d_theta |-> d_theta,
     index |-> index, sine |-> sine, cosine |-> cosine,
     bandwidth |-> bandwidth, zeta |-> zeta, a |-> a, b |-> b,
     pll_filter |-> pll_filter]

Assign(o) ==
    /\ type' = o.type
    /\ theta' = o.theta
    /\ d_theta' = o.d_theta
    /\ index' = o.index
    /\ sine' = o.sine
    /\ cosine' = o.cosine
    /\ bandwidth' = o.bandwidth
    /\ zeta' = o.zeta
    /\ a' = o.a
    /\ b' = o.b
    /\ pll_filter' = o.pll_filter

\* the same with the filter created anew, coefficients included
pll_reset_recreating(o) ==
    [o EXCEPT !.pll_filter = iirfiltsos_rrrq16_create(<<0, 0, 0>>, <<q16_one, 0, 0>>)]

\* nco_crcq16_pll_reset
pll_reset(o) == [o EXCEPT !.pll_filter = iirfiltsos_rrrq16_clear(o.pll_filter)]

\* nco_crcq16_reset
reset(o) ==
    pll_reset([o EXCEPT !.theta = 0, !.d_theta = 0, !.index = 0,
                        !.sine = 0, !.cosine = 1])

\* nco_crcq16_pll_set_bandwidth past its validation
pll_set_bandwidth(o, _b) ==
    [o EXCEPT !.bandwidth = _b,
              !.zeta = Trunc(7071, 10000),
              !.b = pll_b(_b, build),
              !.a = pll_a(_b, build),
              !.pll_filter = iirfiltsos_rrrq16_set_coefficients(
                                 o.pll_filter, pll_b(_b, build), pll_a(_b, build))]

\* nco_crcq16_create up to the choice of the method, the sine table apart;
\* NCO_PLL_BANDWIDTH_DEFAULT (0.1) is passed as a q16_t, which makes it 0
create(_type) ==
    LET o0 == [type |-> _type, theta |-> 0, d_theta |-> 0,
               index |-> 0, sine |-> 0, cosine |-> 0,
               bandwidth |-> 0, zeta |-> 0,
               a |-> <<q16_one, 0, 0>>, b |-> <<0, 0, 0>>,
               pll_filter |-> iirfiltsos_rrrq16_create(<<0, 0, 0>>, <<q16_one, 0, 0>>)]
    IN  pll_set_bandwidth(reset(o0), Trunc(1, 10))

set_frequency(o, _f) == [o EXCEPT !.d_theta = _f]

\* the same followed by the correction of nco_crcq16_constrain_frequency
adjust_frequency_constrained(o, _df) ==
    [o EXCEPT !.d_theta = nco_crcq16_constrain_phase(Int16(o.d_theta + _df))]

adjust_frequency(o, _df) == [o EXCEPT !.d_theta = Int16(o.d_theta + _df)]

set_phase(o, _phi) == [o EXCEPT !.theta = nco_crcq16_constrain_phase(_phi)]

adjust_phase(o, _dphi) ==
    [o EXCEPT !.theta = nco_crcq16_constrain_phase(Int16(o.theta + _dphi))]

\* the same without the call of nco_crcq16_constrain_phase
step_unconstrained(o) == [o EXCEPT !.theta = Int16(o.theta + o.d_theta)]

step(o) == [o EXCEPT !.theta = nco_crcq16_constrain_phase(Int16(o.theta + o.d_theta))]

\* the object after q->compute_sincos(q)
with_sincos(o) ==
    With(compute_sincos(o), LAMBDA sc :
         [o EXCEPT !.index = sc.index, !.sine = sc.sine, !.cosine = sc.cosine])

\* nco_crcq16_pll_step
pll_step(o, _dphi) ==
    With(iirfiltsos_rrrq16_execute_df1(o.pll_filter, _dphi), LAMBDA f :
         adjust_frequency([o EXCEPT !.pll_filter = f], f.y[1]))

\* mix_up as the disabled block of lines 345-354 would have it: the phase
\* moves on by the frequency after the sample
mix_up_stepping(o, x) ==
    With(with_sincos(o), LAMBDA o1 :
         [o |-> step(o1), y |-> cq16_mul(x, <<o1.cosine, o1.sine>>)])

\* nco_crcq16_mix_down with the sine taken as it is, not negated
mix_down_same_sign(o, x) ==
    With(with_sincos(o), LAMBDA o1 :
         [o |-> o1, y |-> cq16_mul(x, <<o1.cosine, o1.sine>>)])

\* nco_crcq16_mix_up, nco_crcq16_mix_down: [o: the object after, y: the output]
mix_up(o, x) ==
    With(with_sincos(o), LAMBDA o1 :
         [o |-> o1, y |-> cq16_mul(x, <<o1.cosine, o1.sine>>)])

mix_down(o, x) ==
    With(with_sincos(o), LAMBDA o1 :
         [o |-> o1, y |-> cq16_mul(x, <<o1.cosine, Int16(-o1.sine)>>)])

\* nco_crcq16_mix_block_up, nco_crcq16_mix_block_down: the loop over xs from
\* sample i on, ys the outputs written so far
RECURSIVE mix_block_up(_, _, _, _)
mix_block_up(o, xs, ys, i) ==
    IF i > Len(xs) THEN [o |-> o, y |-> ys]
    ELSE With(mix_up(o, xs[i]), LAMBDA r :
              mix_block_up(r.o, xs, Append(ys, r.y), i + 1))

RECURSIVE mix_block_down(_, _, _, _)
mix_block_down(o, xs, ys, i) ==
    IF i > Len(xs) THEN [o |-> o, y |-> ys]
    ELSE With(mix_down(o, xs[i]), LAMBDA r :
              mix_block_down(r.o, xs, Append(ys, r.y), i + 1))

----------------------------------------------------------------------------
(* The OFDM frame helpers, src/multicarrier/src/ofdmframe.common.c.  An    *)
(* array of the C code holds its element i at position i + 1 here.         *)

\* subcarrier tags of liquid.internal.h
OFDMFRAME_SCTYPE_NULL == 0
OFDMFRAME_SCTYPE_PILOT == 1
OFDMFRAME_SCTYPE_DATA == 2

\* x - y on unsigned int, as two 16-bit limbs; x and y are below 2^16
UIntSub(x, y) ==
    IF x >= y THEN [hi |-> 0, lo |-> x - y]
    ELSE [hi |-> 65535, lo |-> 65536 - (y - x)]

\* i < u for a small i and an unsigned int u
UIntLess(i, u) == u.hi > 0 \/ i < u.lo

\* the tag the two band loops of ofdmframe_init_default_sctype give to the
\* subcarrier at distance i from index 0
band_sctype_unshifted(i, P, P2) ==
    IF (i % P) = 0 THEN OFDMFRAME_SCTYPE_PILOT ELSE OFDMFRAME_SCTYPE_DATA

band_sctype(i, P, P2) ==
    IF ((i + P2) % P) = 0 THEN OFDMFRAME_SCTYPE_PILOT ELSE OFDMFRAME_SCTYPE_DATA

\* ofdmframe_init_default_sctype(_M, _p): the array it leaves in _p[0.._M-1]
\* and whether one of its writes fell outside the array.  The lower band is
\* written after the upper band, so its tag wins where both write.
init_default_sctype(_M) ==
    With([M2 |-> _M \div 2,
          G  |-> IF _M \div 10 < 2 THEN 2 ELSE _M \div 10,
          P  |-> IF _M > 34 THEN 8 ELSE 4], LAMBDA c :
    With(UIntSub(c.M2, c.G), LAMBDA n :
      [p |-> [j \in 1.._M |->
                With(j - 1, LAMBDA k :
                  IF k >= 0 /\ _M - k >= 1 /\ UIntLess(_M - k, n)
                    THEN band_sctype(_M - k, c.P, c.P \div 2)
                  ELSE IF k >= 1 /\ UIntLess(k, n)
                    THEN band_sctype(k, c.P, c.P \div 2)
                  ELSE OFDMFRAME_SCTYPE_NULL)],
       oob |-> UIntLess(IF _M > 1 THEN _M ELSE 1, n),
       warned |-> _M < 6]))

\* bit i of the m-sequence that ofdmframe_init_S0 and ofdmframe_init_S1 draw
\* their symbols from; the generator is outside this file, so the sequence
\* is an input
MsequencePatterns == {"zeros", "ones", "alternating", "pairs"}
msequence_generate_symbol(pattern, i) ==
    CASE pattern = "zeros" -> 0
      [] pattern = "ones" -> 1
      [] pattern = "alternating" -> i % 2
      [] OTHER -> (i \div 2) % 2

\* the value +1 or -1 of a symbol bit
bpsk(s) == IF s = 1 THEN 1 ELSE -1

\* one iteration of the symbol loop of ofdmframe_init_S0: the symbol it
\* stores in _S0[i] and what it adds to the counter M_S0
S0_body_counting_odd(_p, pattern, i) ==
    IF _p[i + 1] = OFDMFRAME_SCTYPE_NULL THEN [S |-> <<0>>, M_S |-> 0]
    ELSE [S |-> <<bpsk(msequence_generate_symbol(pattern, i))>>, M_S |-> 1]

S0_body(_p, pattern, i) ==
    IF _p[i + 1] = OFDMFRAME_SCTYPE_NULL THEN [S |-> <<0>>, M_S |-> 0]
    ELSE IF (i % 2) = 0
      THEN [S |-> <<bpsk(msequence_generate_symbol(pattern, i))>>, M_S |-> 1]
    ELSE [S |-> <<0>>, M_S |-> 0]

\* the iterations lo .. hi-1 of that loop, in order: the symbols stored and
\* the counter's increase (the range is split in halves to bound the depth
\* of the evaluation)
RECURSIVE S0_loop(_, _, _, _)
S0_loop(_p, pattern, lo, hi) ==
    IF ~(lo < hi) THEN [S |-> <<>>, M_S |-> 0]
    ELSE IF hi = lo + 1 THEN S0_body(_p, pattern, lo)
    ELSE With(S0_loop(_p, pattern, lo, (lo + hi) \div 2), LAMBDA l :
         With(S0_loop(_p, pattern, (lo + hi) \div 2, hi), LAMBDA h :
              [S |-> l.S \o h.S, M_S |-> l.M_S + h.M_S]))

\* the same of ofdmframe_init_S1
S1_body(_p, pattern, i) ==
    IF _p[i + 1] = OFDMFRAME_SCTYPE_NULL THEN [S |-> <<0>>, M_S |-> 0]
    ELSE [S |-> <<bpsk(msequence_generate_symbol(pattern, i))>>, M_S |-> 1]

RECURSIVE S1_loop(_, _, _, _)
S1_loop(_p, pattern, lo, hi) ==
    IF ~(lo < hi) THEN [S |-> <<>>, M_S |-> 0]
    ELSE IF hi = lo + 1 THEN S1_body(_p, pattern, lo)
    ELSE With(S1_loop(_p, pattern, lo, (lo + hi) \div 2), LAMBDA l :
         With(S1_loop(_p, pattern, (lo + hi) \div 2, hi), LAMBDA h :
              [S |-> l.S \o h.S, M_S |-> l.M_S + h.M_S]))

\* the test that ends ofdmframe_init_S0 and ofdmframe_init_S1 with exit(1)
no_subcarriers_enabled_never(M_S) == FALSE

no_subcarriers_enabled(M_S) == M_S = 0

\* an output that the call did not write
Unwritten == -1

\* no ofdmframe call was made yet.  The fields describe the last call: its
\* array _p, the symbol S it wrote (empty if it writes none), the count M_S
\* it stored through its output pointer, the count g_den it normalised by,
\* and how it ended.
NoFrame == [op |-> "none", pc |-> "none", M |-> 0, p |-> <<>>, S |-> <<>>,
            M_S |-> Unwritten, g_den |-> Unwritten, oob |-> FALSE,
            warned |-> FALSE]

----------------------------------------------------------------------------
(* The calls *)

\* what is remembered of the state a call started in
Snapshot == [o |-> Object, pc |-> pc, op |-> last.op, x_in |-> x_in, y_out |-> y_out]

\* a call op(arg) that leaves the object o behind; raw is the phase it held
\* before nco_crcq16_constrain_phase ran (0 for a call that runs none)
Call(op, arg, raw, o) ==
    /\ Assign(o)
    /\ last' = [op |-> op, arg |-> arg, raw |-> raw, pre |-> Snapshot]
    /\ nops' = nops + 1
    /\ build' = build
    /\ ofdm' = ofdm
    /\ sintab' = IF op = "create" THEN create_sintab ELSE sintab
    /\ \/ /\ op = "step"
          /\ nsteps' = nsteps + 1
          /\ theta_start' = theta_start
       \/ /\ op # "step"
          /\ IF o.theta # theta \/ o.d_theta # d_theta
                \/ op \in {"create", "reset", "set_phase", "adjust_phase",
                           "set_frequency", "adjust_frequency", "pll_step"}
             THEN nsteps' = 0 /\ theta_start' = o.theta
             ELSE UNCHANGED <<nsteps, theta_start>>

NoSamples == x_in' = <<>> /\ y_out' = <<>>

Live == pc = "live"

nco_crcq16_create(_type) ==
    /\ pc = "none"
    /\ \E o \in {create(_type)} : Call("create", 0, 0, o)
    /\ pc' = IF _type \in {LIQUID_NCO, LIQUID_VCO} THEN "live" ELSE "exit"
    /\ NoSamples
    /\ ret' = <<>>

nco_crcq16_reset ==
    /\ Live
    /\ \E o \in {reset(Object)} : Call("reset", 0, 0, o)
    /\ NoSamples
    /\ UNCHANGED <<pc, ret>>

nco_crcq16_set_frequency(_f) ==
    /\ Live
    /\ \E o \in {set_frequency(Object, _f)} : Call("set_frequency", _f, 0, o)
    /\ NoSamples
    /\ UNCHANGED <<pc, ret>>

nco_crcq16_adjust_frequency(_df) ==
    /\ Live
    /\ \E o \in {adjust_frequency(Object, _df)} : Call("adjust_frequency", _df, 0, o)
    /\ NoSamples
    /\ UNCHANGED <<pc, ret>>

nco_crcq16_set_phase(_phi) ==
    /\ Live
    /\ \E o \in {set_phase(Object, _phi)} : Call("set_phase", _phi, _phi, o)
    /\ NoSamples
    /\ UNCHANGED <<pc, ret>>

nco_crcq16_adjust_phase(_dphi) ==
    /\ Live
    /\ \E o \in {adjust_phase(Object, _dphi)} : Call("adjust_phase", _dphi, Int16(theta + _dphi), o)
    /\ NoSamples
    /\ UNCHANGED <<pc, ret>>

nco_crcq16_step ==
    /\ Live
    /\ \E o \in {step(Object)} : Call("step", 0, Int16(theta + d_theta), o)
    /\ NoSamples
    /\ UNCHANGED <<pc, ret>>

nco_crcq16_get_phase ==
    /\ Live
    /\ \E o \in {Object} : Call("get_phase", 0, 0, o)
    /\ ret' = <<theta>>
    /\ NoSamples
    /\ UNCHANGED pc

nco_crcq16_get_frequency ==
    /\ Live
    /\ \E o \in {Object} : Call("get_frequency", 0, 0, o)
    /\ ret' = <<d_theta>>
    /\ NoSamples
    /\ UNCHANGED pc

nco_crcq16_sin ==
    /\ Live
    /\ \E o \in {with_sincos(Object)} : Call("sin", 0, 0, o)
    /\ ret' = <<sine'>>
    /\ NoSamples
    /\ UNCHANGED pc

nco_crcq16_cos ==
    /\ Live
    /\ \E o \in {with_sincos(Object)} : Call("cos", 0, 0, o)
    /\ ret' = <<cosine'>>
    /\ NoSamples
    /\ UNCHANGED pc

nco_crcq16_sincos ==
    /\ Live
    /\ \E o \in {with_sincos(Object)} : Call("sincos", 0, 0, o)
    /\ ret' = <<sine', cosine'>>
    /\ NoSamples
    /\ UNCHANGED pc

nco_crcq16_cexpf ==
    /\ Live
    /\ \E o \in {with_sincos(Object)} : Call("cexpf", 0, 0, o)
    /\ ret' = <<cosine', sine'>>
    /\ NoSamples
    /\ UNCHANGED pc

\* the validation as its message words it ("bandwidth must be positive")
nco_crcq16_pll_set_bandwidth_positive(_b) ==
    /\ Live
    /\ \E o \in {IF _b <= 0 THEN Object ELSE pll_set_bandwidth(Object, _b)} :
           Call("pll_set_bandwidth", _b, 0, o)
    /\ pc' = IF _b <= 0 THEN "exit" ELSE pc
    /\ NoSamples
    /\ UNCHANGED ret

\* _b < 0: the error is printed and exit(1) ends the process
nco_crcq16_pll_set_bandwidth(_b) ==
    /\ Live
    /\ \E o \in {IF _b < 0 THEN Object ELSE pll_set_bandwidth(Object, _b)} :
           Call("pll_set_bandwidth", _b, 0, o)
    /\ pc' = IF _b < 0 THEN "exit" ELSE pc
    /\ NoSamples
    /\ UNCHANGED ret

nco_crcq16_pll_step(_dphi) ==
    /\ Live
    /\ \E o \in {pll_step(Object, _dphi)} : Call("pll_step", _dphi, 0, o)
    /\ NoSamples
    /\ UNCHANGED <<pc, ret>>

nco_crcq16_mix_up(_x) ==
    /\ Live
    /\ \E r \in {mix_up(Object, _x)} :
           Call("mix_up", 0, 0, r.o) /\ x_in' = <<_x>> /\ y_out' = <<r.y>>
    /\ UNCHANGED <<pc, ret>>

nco_crcq16_mix_down(_x) ==
    /\ Live
    /\ \E r \in {mix_down(Object, _x)} :
           Call("mix_down", 0, 0, r.o) /\ x_in' = <<_x>> /\ y_out' = <<r.y>>
    /\ UNCHANGED <<pc, ret>>

nco_crcq16_mix_block_up(_xs) ==
    /\ Live
    /\ \E r \in {mix_block_up(Object, _xs, <<>>, 1)} :
           Call("mix_block_up", Len(_xs), 0, r.o) /\ x_in' = _xs /\ y_out' = r.y
    /\ UNCHANGED <<pc, ret>>

nco_crcq16_mix_block_down(_xs) ==
    /\ Live
    /\ \E r \in {mix_block_down(Object, _xs, <<>>, 1)} :
           Call("mix_block_down", Len(_xs), 0, r.o) /\ x_in' = _xs /\ y_out' = r.y
    /\ UNCHANGED <<pc, ret>>

----------------------------------------------------------------------------
(* The program: an object is created and then called, MaxOps calls in all *)

NoObject ==
    /\ pc = "none"
    /\ type = LIQUID_NCO
    /\ theta = 0
    /\ d_theta = 0
    /\ sintab = <<>>
    /\ index = 0
    /\ sine = 0
    /\ cosine = 0
    /\ bandwidth = 0
    /\ zeta = 0
    /\ a = <<0, 0, 0>>
    /\ b = <<0, 0, 0>>
    /\ pll_filter = iirfiltsos_rrrq16_create(<<0, 0, 0>>, <<0, 0, 0>>)
    /\ x_in = <<>>
    /\ y_out = <<>>
    /\ ret = <<>>
    /\ last = [op |-> "none", arg |-> 0, raw |-> 0, pre |-> <<>>]
    /\ nsteps = 0
    /\ theta_start = 0
    /\ nops = 0
    /\ ofdm = NoFrame

Init ==
    /\ build \in Builds
    /\ NoObject

\* fewer than MaxOps calls have been made
Within == nops < MaxOps

Next ==
    \/ \E t \in Types : Within /\ nco_crcq16_create(t)
    \/ Within /\ nco_crcq16_reset
    \/ \E f \in FreqArgs : Within /\ nco_crcq16_set_frequency(f)
    \/ \E f \in FreqArgs : Within /\ nco_crcq16_adjust_frequency(f)
    \/ \E p \in PhaseArgs : Within /\ nco_crcq16_set_phase(p)
    \/ \E p \in PhaseArgs : Within /\ nco_crcq16_adjust_phase(p)
    \/ Within /\ nco_crcq16_step
    \/ Within /\ nco_crcq16_get_phase
    \/ Within /\ nco_crcq16_get_frequency
    \/ Within /\ nco_crcq16_sin
    \/ Within /\ nco_crcq16_cos
    \/ Within /\ nco_crcq16_sincos
    \/ Within /\ nco_crcq16_cexpf
    \/ \E w \in BandwidthArgs : Within /\ nco_crcq16_pll_set_bandwidth(w)
    \/ \E e \in PhaseErrors : Within /\ nco_crcq16_pll_step(e)
    \/ \E x \in Samples : Within /\ nco_crcq16_mix_up(x)
    \/ \E x \in Samples : Within /\ nco_crcq16_mix_down(x)
    \/ \E xs \in Blocks : Within /\ nco_crcq16_mix_block_up(xs)
    \/ \E xs \in Blocks : Within /\ nco_crcq16_mix_block_down(xs)

Spec == Init /\ [][Next]_vars

----------------------------------------------------------------------------
(* The table lookup over every phase: an NCO is created, set_phase is      *)
(* called with any q16 value, and the sine and cosine are read.            *)

\* the state holds the object o
Holds(o) ==
    /\ type = o.type
    /\ theta = o.theta
    /\ d_theta = o.d_theta
    /\ index = o.index
    /\ sine = o.sine
    /\ cosine = o.cosine
    /\ bandwidth = o.bandwidth
    /\ zeta = o.zeta
    /\ a = o.a
    /\ b = o.b
    /\ pll_filter = o.pll_filter

\* the state after n calls, the last two being prev, which left o0 behind,
\* and op(arg), which ran nco_crcq16_constrain_phase on raw (0 if it runs
\* none) and left o1 behind
AfterCallsRaw(prev, op, arg, raw, o0, o1, n) ==
    /\ Holds(o1)
    /\ sintab = create_sintab
    /\ pc = "live"
    /\ x_in = <<>>
    /\ y_out = <<>>
    /\ ret = <<>>
    /\ last = [op |-> op, arg |-> arg, raw |-> raw,
               pre |-> [o |-> o0, pc |-> "live", op |-> prev,
                        x_in |-> <<>>, y_out |-> <<>>]]
    /\ nsteps = 0
    /\ theta_start = o1.theta
    /\ nops = n
    /\ ofdm = NoFrame

\* the same for a call that constrains its argument
AfterCalls(prev, op, arg, o0, o1, n) == AfterCallsRaw(prev, op, arg, arg, o0, o1, n)

PhaseRange == -32768..32767

PhaseInit ==
    /\ build \in Builds
    /\ \E phi \in PhaseRange :
           \E o0 \in {create(LIQUID_NCO)} :
               \E o1 \in {set_phase(o0, phi)} :
                   AfterCalls("create", "set_phase", phi, o0, o1, 2)

PhaseNext ==
    /\ last.op = "set_phase"
    /\ nco_crcq16_sincos

PhaseSpec == PhaseInit /\ [][PhaseNext]_vars

----------------------------------------------------------------------------
(* Stepping: an NCO is created, its frequency and phase are set, and then  *)
(* it is stepped MaxSteps times with no other call in between.             *)

MaxSteps == 256

\* [phase, frequency]: every phase in -pi..pi at the frequency 2*pi/256,
\* and the phase 0 at frequencies small and large of both signs
StepStarts ==
    {<<phi, q16_f256>> : phi \in -q16_pi..q16_pi}
    \cup {<<0, f>> : f \in {1, 1000, -700, q16_pi, -q16_pi, q16_pi + 1,
                            q16_2pi, -q16_pi - q16_2pi, 5000, 20000, -32768}}

StepInit ==
    /\ build \in Builds
    /\ \E s \in StepStarts :
           \E o0 \in {set_frequency(create(LIQUID_NCO), s[2])} :
               \E o1 \in {set_phase(o0, s[1])} :
                   AfterCalls("set_frequency", "set_phase", s[1], o0, o1, 3)

StepNext ==
    /\ nsteps < MaxSteps
    /\ nco_crcq16_step

StepSpec == StepInit /\ [][StepNext]_vars

----------------------------------------------------------------------------
(* Mixing up and back down: an NCO is created, its phase is set, a sample  *)
(* is mixed up and the output is mixed down.                               *)

MixSamples ==
    { <<0, 0>>, <<1, -1>>, <<100, -37>>, <<8, 16319>>, <<16383, 16383>>,
      <<-16383, 16383>>, <<30000, 30000>> }

MixInit ==
    /\ build \in Builds
    /\ \E phi \in -q16_pi..q16_pi :
           \E o0 \in {create(LIQUID_NCO)} :
               \E o1 \in {set_phase(o0, phi)} :
                   AfterCalls("create", "set_phase", phi, o0, o1, 2)

MixNext ==
    \/ /\ last.op = "set_phase"
       /\ \E x \in MixSamples : nco_crcq16_mix_up(x)
    \/ /\ last.op = "mix_up"
       /\ nco_crcq16_mix_down(y_out[1])

MixSpec == MixInit /\ [][MixNext]_vars

----------------------------------------------------------------------------
(* The loop driven by a step of phase error: an NCO is created, its        *)
(* bandwidth is set, and pll_step is called MaxPllSteps times with one and *)
(* the same phase error.                                                   *)

MaxPllSteps == 128

PllBandwidths == {0, 1, 2, 3, 5, 22, q16_float_to_fixed(1, 10), q16_one, 32767}

PllErrors == {1, 5, -3, 100, 777, q16_pi, -q16_pi}

PllInit ==
    /\ build \in Builds
    /\ \E w \in PllBandwidths :
           \E o0 \in {create(LIQUID_NCO)} :
               \E o1 \in {pll_set_bandwidth(o0, w)} :
                   AfterCallsRaw("create", "pll_set_bandwidth", w, 0, o0, o1, 2)

PllNext ==
    /\ nops < 2 + MaxPllSteps
    /\ \E e \in PllErrors :
           /\ last.op = "pll_step" => last.arg = e
           /\ nco_crcq16_pll_step(e)

PllSpec == PllInit /\ [][PllNext]_vars

----------------------------------------------------------------------------
(* Properties of Spec *)

PhaseOps == {"set_phase", "adjust_phase", "step"}

SinCosOps == {"sin", "cos", "sincos", "cexpf"}

MixOps == {"mix_up", "mix_down", "mix_block_up", "mix_block_down"}

\* C1: after every phase-mutating call (set_phase, adjust_phase, step), with
\* arbitrary arguments, the stored phase satisfies -pi < phase <= pi.
C1_PhaseInRange ==
    (pc = "live" /\ last.op \in PhaseOps) => (-q16_pi < theta /\ theta <= q16_pi)

\* C6: in NCO mode sincos returns (0, 1) after set_phase(0) and (1, 0) after
\* set_phase(pi/2), each within one table step; 1 is q16_one.
C6_SinCosAtZeroAndQuarter ==
    (/\ last.op = "sincos"
     /\ type = LIQUID_NCO
     /\ last.pre.op = "set_phase")
    => /\ theta = 0
          => Abs(ret[1]) <= TableStep /\ Abs(ret[2] - q16_one) <= TableStep
       /\ theta = q16_pi_by_2
          => Abs(ret[1] - q16_one) <= TableStep /\ Abs(ret[2]) <= TableStep

\* C7: in NCO mode, for a phase in (-pi, pi], the cosine at that phase and
\* the sine after adjust_phase(pi/2) differ by at most one table step.
C7_CosIsShiftedSin ==
    (/\ last.op = "adjust_phase"
     /\ last.arg = q16_pi_by_2
     /\ type = LIQUID_NCO
     /\ -q16_pi < last.pre.o.theta
     /\ last.pre.o.theta <= q16_pi)
    => Abs(compute_sincos(last.pre.o).cosine - compute_sincos(Object).sine)
           <= TableStep

\* the rotation a mixing call applies, from the object it started with
Rotation(op, o) ==
    With(compute_sincos(o), LAMBDA sc :
         IF op \in {"mix_up", "mix_block_up"} THEN <<sc.cosine, sc.sine>>
         ELSE <<sc.cosine, Int16(-sc.sine)>>)

----------------------------------------------------------------------------
(* Properties of PhaseSpec *)

\* C4: whenever an NCO has computed its sine and cosine, the index it stored
\* is in 0..255 (the assertion index < 256 holds), the sine is the table
\* entry at that index and the cosine the entry at (index + 64) mod 256.
C4_IndexInTable ==
    (last.op \in SinCosOps /\ type = LIQUID_NCO)
    => /\ index \in 0..255
       /\ index < 256
       /\ sine = sintab[index + 1]
       /\ cosine = sintab[((index + 64) % 256) + 1]
       /\ ret = <<sine, cosine>>

C4_Witness ==
    /\ last.op = "sincos"
    /\ type = LIQUID_NCO
    /\ theta < -q16_pi_by_2
    /\ index > 255 - 64
    /\ cosine = sintab[index + 64 - 256 + 1]
    /\ cosine # sine

\* theta * 256/(2 pi) for theta in radians (q16), rounded to nearest
RadiansToTableSteps(th) == (2 * 256 * th + q16_2pi) \div (2 * q16_2pi)

ScaledHalfUp(n) == (n * 40743 + (n * 665 + 500000) \div 1000) \div 1000

\* n * 40.743665 + 1/2 rounded up
ScaledHalfDown(n) ==
    -(((-n) * 40743 + ((-n) * 665 - 500000) \div 1000) \div 1000)

----------------------------------------------------------------------------
(* Properties of StepSpec *)

\* one correction by 2*pi of a phase v outside -pi..pi
ConstrainOnce(v) ==
    IF v > q16_pi THEN v - q16_2pi
    ELSE IF v < -q16_pi THEN v + q16_2pi
    ELSE v

C3_PhaseIsConstrainedProduct ==
    (theta_start = 0 /\ last.op \in {"set_phase", "step"})
    => theta = ConstrainOnce(nsteps * d_theta)

\* C3 amended: from phase 0 at a constant frequency f, after n steps and no
\* other call the phase is n*f corrected once as long as |n*f| <= 3*pi;
\* for |f| <= 2*pi and any n it is in -pi..pi and differs from n*f by a
\* multiple of 2*pi.
C3_PhaseIsProductModulo ==
    (theta_start = 0 /\ last.op \in {"set_phase", "step"})
    => /\ Abs(nsteps * d_theta) <= q16_pi + q16_2pi
          => theta = ConstrainOnce(nsteps * d_theta)
       /\ Abs(d_theta) <= q16_2pi
          => /\ -q16_pi <= theta
             /\ theta <= q16_pi
             /\ (theta - nsteps * d_theta) % q16_2pi = 0

C3_Witness ==
    /\ theta_start = 0
    /\ last.op = "step"
    /\ d_theta = 1000
    /\ nsteps = 5
    /\ theta = 5000 - 2 * q16_2pi
    /\ theta # ConstrainOnce(nsteps * d_theta)

----------------------------------------------------------------------------
(* Properties of MixSpec *)

\* the sample given to mix_up before the mix_down that ended
MixedSample == last.pre.x_in[1]

\* each part of y is within 4 + (|x.real| + |x.imag|)/128 of that part of x
WithinTolerance(x, y) ==
    \A i \in 1..2 : 128 * Abs(y[i] - x[i]) <= 128 * 4 + Abs(x[1]) + Abs(x[2])

----------------------------------------------------------------------------
(* Properties of Spec: construction, reset, the loop and the frequency *)

\* the loop filter holds no past input and no past output
FilterCleared(f) == f.x = <<0, 0, 0>> /\ f.y = <<0, 0, 0>>

\* C11: right after create(NCO or VCO) the phase and the frequency are 0,
\* the loop filter is cleared, the stored bandwidth is q16(0.1), which is
\* positive, and the coefficients are those of that bandwidth at gain 1000.
C11_CreateDefaults ==
    (last.op = "create" /\ pc = "live")
    => /\ theta = 0
       /\ d_theta = 0
       /\ FilterCleared(pll_filter)
       /\ bandwidth = q16_float_to_fixed(1, 10)
       /\ bandwidth > 0
       /\ b = pll_b(q16_float_to_fixed(1, 10), build)
       /\ a = pll_a(q16_float_to_fixed(1, 10), build)
       /\ pll_filter.b = b
       /\ pll_filter.a = a

\* C12: reset leaves phase 0, frequency 0 and a cleared loop filter, and
\* leaves the mode, the sine table, the bandwidth and the coefficients (the
\* object's and the filter's) as they were.
C12_ResetFrame ==
    last.op = "reset"
    => /\ theta = 0
       /\ d_theta = 0
       /\ FilterCleared(pll_filter)
       /\ type = last.pre.o.type
       /\ sintab = create_sintab
       /\ bandwidth = last.pre.o.bandwidth
       /\ a = last.pre.o.a
       /\ b = last.pre.o.b
       /\ pll_filter.a = last.pre.o.pll_filter.a
       /\ pll_filter.b = last.pre.o.pll_filter.b

C12_Witness ==
    /\ last.op = "reset"
    /\ last.pre.op = "pll_step"
    /\ ~FilterCleared(last.pre.o.pll_filter)
    /\ last.pre.o.pll_filter.b # <<0, 0, 0>>
    /\ FilterCleared(pll_filter)

----------------------------------------------------------------------------
(* Properties of PllSpec *)

----------------------------------------------------------------------------
(* The frequency calls from the state after create and pll_set_bandwidth,  *)
(* with frequencies up to the ends of the 16-bit range.                    *)

MaxFreqOps == 3
FreqBandwidths == {0, q16_float_to_fixed(1, 10)}
FreqValues == {1000, -700, 32767, -32768}
FreqErrors == {5, q16_pi}
FreqPhases == {1000}

FreqInit ==
    /\ build \in Builds
    /\ \E w \in FreqBandwidths : \E o0 \in {create(LIQUID_NCO)} :
         \E o1 \in {pll_set_bandwidth(o0, w)} :
           AfterCallsRaw("create", "pll_set_bandwidth", w, 0, o0, o1, 2)

FreqWithin == nops < 2 + MaxFreqOps

FreqNext ==
    \/ \E f \in FreqValues : FreqWithin /\ nco_crcq16_set_frequency(f)
    \/ \E f \in FreqValues : FreqWithin /\ nco_crcq16_adjust_frequency(f)
    \/ \E e \in FreqErrors : FreqWithin /\ nco_crcq16_pll_step(e)
    \/ \E phi \in FreqPhases : FreqWithin /\ nco_crcq16_set_phase(phi)
    \/ FreqWithin /\ nco_crcq16_get_phase
    \/ FreqWithin /\ nco_crcq16_get_frequency

FreqSpec == FreqInit /\ [][FreqNext]_vars

----------------------------------------------------------------------------
(* The OFDM frame helpers as calls.  A call that ended the process, or     *)
(* overran its array, is the last one.                                     *)

MaxM == 70

AllTagged(_M, tag) == [j \in 1.._M |-> tag]

\* only the odd subcarriers enabled
OddTagged(_M, tag) ==
    [j \in 1.._M |-> IF ((j - 1) % 2) = 1 THEN tag ELSE OFDMFRAME_SCTYPE_NULL]

\* one subcarrier enabled
OneTagged(_M, k, tag) ==
    [j \in 1.._M |-> IF j - 1 = k THEN tag ELSE OFDMFRAME_SCTYPE_NULL]

Allocations ==
    { AllTagged(64, OFDMFRAME_SCTYPE_DATA), AllTagged(64, OFDMFRAME_SCTYPE_NULL),
      AllTagged(6, OFDMFRAME_SCTYPE_NULL), AllTagged(7, OFDMFRAME_SCTYPE_PILOT),
      OddTagged(8, OFDMFRAME_SCTYPE_DATA), OddTagged(64, OFDMFRAME_SCTYPE_PILOT),
      OneTagged(8, 2, OFDMFRAME_SCTYPE_DATA), OneTagged(8, 3, OFDMFRAME_SCTYPE_DATA),
      <<>> }

OfdmLive == ofdm.pc \in {"none", "returned"}

NcoUnchanged ==
    UNCHANGED <<pc, build, type, theta, d_theta, sintab, index, sine, cosine,
                bandwidth, zeta, a, b, pll_filter, x_in, y_out, last, nsteps,
                theta_start, ret, nops>>

\* the allocations a caller can pass on: the ones above and the one the
\* last call left in its array
Passable == Allocations \cup (IF ofdm.oob THEN {} ELSE {ofdm.p})

ofdmframe_init_default_sctype(_M) ==
    /\ OfdmLive
    /\ \E r \in {init_default_sctype(_M)} :
       \E outcome \in (IF r.oob THEN {"crash", "returned"} ELSE {"returned"}) :
         ofdm' = [ofdm EXCEPT !.op = "init_default_sctype", !.pc = outcome,
                              !.M = _M, !.p = r.p, !.oob = r.oob,
                              !.warned = r.warned, !.S = <<>>,
                              !.M_S = Unwritten, !.g_den = Unwritten]
    /\ NcoUnchanged

ofdmframe_init_S0(_p, pattern) ==
    /\ OfdmLive
    /\ \E _M \in {Len(_p)} : \E r \in {S0_loop(_p, pattern, 0, _M)} :
         ofdm' = [ofdm EXCEPT !.op = "init_S0", !.M = _M, !.p = _p, !.oob = FALSE,
                              !.warned = FALSE,
                              !.S = r.S,
                              !.pc = IF no_subcarriers_enabled(r.M_S)
                                       THEN "exit" ELSE "returned",
                              !.M_S = IF no_subcarriers_enabled(r.M_S)
                                        THEN Unwritten ELSE r.M_S,
                              !.g_den = IF no_subcarriers_enabled(r.M_S)
                                          THEN Unwritten ELSE r.M_S]
    /\ NcoUnchanged

ofdmframe_init_S1(_p, pattern) ==
    /\ OfdmLive
    /\ \E _M \in {Len(_p)} : \E r \in {S1_loop(_p, pattern, 0, _M)} :
         ofdm' = [ofdm EXCEPT !.op = "init_S1", !.M = _M, !.p = _p, !.oob = FALSE,
                              !.warned = FALSE,
                              !.S = r.S,
                              !.pc = IF no_subcarriers_enabled(r.M_S)
                                       THEN "exit" ELSE "returned",
                              !.M_S = IF no_subcarriers_enabled(r.M_S)
                                        THEN Unwritten ELSE r.M_S,
                              !.g_den = IF no_subcarriers_enabled(r.M_S)
                                          THEN Unwritten ELSE r.M_S]
    /\ NcoUnchanged

OfdmInit == build \in Builds /\ NoObject

OfdmNext ==
    \/ \E _M \in 0..MaxM : ofdmframe_init_default_sctype(_M)
    \/ \E _p \in Passable : \E pattern \in MsequencePatterns :
         ofdmframe_init_S0(_p, pattern)
    \/ \E _p \in Passable : \E pattern \in MsequencePatterns :
         ofdmframe_init_S1(_p, pattern)

OfdmSpec == OfdmInit /\ [][OfdmNext]_vars

----------------------------------------------------------------------------
(* Properties of OfdmSpec *)

\* the guard half-width and the pilot spacing of the default allocation
GuardWidth(_M) == IF _M \div 10 < 2 THEN 2 ELSE _M \div 10
PilotSpacing(_M) == IF _M > 34 THEN 8 ELSE 4
Tagged(tag) == {k \in 0..(ofdm.M - 1) : ofdm.p[k + 1] = tag}

\* C14: after ofdmframe_init_default_sctype(M) with a non-empty band
\* (M/2 - G > 1, G = max(2, M/10)), index 0 and the indices M/2-G..M/2+G are
\* NULL, and for 1 <= i < M/2-G the indices i and M-i are PILOT when
\* (i + P/2) mod P = 0 and DATA otherwise, P = 8 if M > 34 else 4; for
\* M = 64 the pilots are exactly 4, 12, 20, 44, 52, 60
C14_DefaultAllocation ==
    (ofdm.op = "init_default_sctype" /\ (ofdm.M \div 2) - GuardWidth(ofdm.M) > 1) =>
      \E G \in {GuardWidth(ofdm.M)} : \E P \in {PilotSpacing(ofdm.M)} :
        /\ ofdm.pc = "returned"
        /\ Len(ofdm.p) = ofdm.M
        /\ ofdm.p[0 + 1] = OFDMFRAME_SCTYPE_NULL
        /\ \A k \in ((ofdm.M \div 2) - G)..((ofdm.M \div 2) + G) :
             ofdm.p[k + 1] = OFDMFRAME_SCTYPE_NULL
        /\ \A i \in 1..((ofdm.M \div 2) - G - 1) :
             \E tag \in {IF ((i + (P \div 2)) % P) = 0 THEN OFDMFRAME_SCTYPE_PILOT
                         ELSE OFDMFRAME_SCTYPE_DATA} :
               /\ ofdm.p[i + 1] = tag
               /\ ofdm.p[ofdm.M - i + 1] = tag
        /\ ofdm.M = 64 => Tagged(OFDMFRAME_SCTYPE_PILOT) = {4, 12, 20, 44, 52, 60}

C14_Witness ==
    /\ ofdm.op = "init_default_sctype"
    /\ ofdm.M = 64
    /\ ofdm.pc = "returned"
    /\ ofdm.p[12 + 1] = OFDMFRAME_SCTYPE_PILOT
    /\ ofdm.p[39 + 1] = OFDMFRAME_SCTYPE_DATA
    /\ ofdm.p[38 + 1] = OFDMFRAME_SCTYPE_NULL

\* the enabled subcarriers of the allocation the last call was given
Enabled == {i \in 0..(ofdm.M - 1) : ofdm.p[i + 1] # OFDMFRAME_SCTYPE_NULL}
EvenEnabled == {i \in Enabled : (i % 2) = 0}

\* C15: ofdmframe_init_S0 returns the number of even indices with a
\* non-NULL tag as its count; its symbol is 0 at every NULL index and every
\* odd index and +1 or -1 at every even non-NULL index; for the all-DATA
\* allocation of 64 subcarriers the count is half the non-NULL count
C15_ShortSequence ==
    ofdm.op = "init_S0" =>
      /\ Len(ofdm.S) = ofdm.M
      /\ \A i \in 0..(ofdm.M - 1) :
           IF i \in EvenEnabled THEN ofdm.S[i + 1] \in {1, -1}
           ELSE ofdm.S[i + 1] = 0
      /\ ofdm.pc = "returned" => ofdm.M_S = Cardinality(EvenEnabled)
      /\ ofdm.p = AllTagged(64, OFDMFRAME_SCTYPE_DATA) =>
           /\ ofdm.pc = "returned"
           /\ 2 * ofdm.M_S = Cardinality(Enabled)

C15_Witness ==
    /\ ofdm.op = "init_S0"
    /\ ofdm.pc = "returned"
    /\ ofdm.p = AllTagged(64, OFDMFRAME_SCTYPE_DATA)
    /\ ofdm.M_S = 32
    /\ ofdm.S[0 + 1] = -1
    /\ ofdm.S[2 + 1] = 1
    /\ ofdm.S[3 + 1] = 0

\* C16: ofdmframe_init_S0 and ofdmframe_init_S1 end the process exactly
\* when their count of enabled subcarriers is zero (S1: no non-NULL index;
\* S0: no even non-NULL index, even if odd ones are enabled), and then the
\* count output is not written; otherwise the count is at least 1, so the
\* normalisation 1/sqrt(count) does not divide by zero
C16_FatalOnNoSubcarriers ==
    /\ ofdm.op = "init_S0" => (ofdm.pc = "exit" <=> EvenEnabled = {})
    /\ ofdm.op = "init_S1" => (ofdm.pc = "exit" <=> Enabled = {})
    /\ ofdm.op \in {"init_S0", "init_S1"} =>
         /\ ofdm.pc \in {"exit", "returned"}
         /\ ofdm.pc = "exit" => ofdm.M_S = Unwritten /\ ofdm.g_den = Unwritten
         /\ ofdm.pc = "returned" => ofdm.M_S >= 1 /\ ofdm.g_den = ofdm.M_S

C16_Witness ==
    /\ ofdm.op = "init_S0"
    /\ ofdm.pc = "exit"
    /\ ofdm.p = OddTagged(8, OFDMFRAME_SCTYPE_DATA)
    /\ Enabled # {}
    /\ ofdm.M_S = Unwritten

\* C21: for every M >= 0, also M < 6 where only a warning is printed,
\* ofdmframe_init_default_sctype(M) returns, writes only to the indices
\* 0 .. M-1 of the allocation array, and its unsigned loop bound M/2 - G
\* does not wrap around
C21_DefaultAllocationInBounds ==
    ofdm.op = "init_default_sctype" =>
      /\ ofdm.pc = "returned"
      /\ ~ofdm.oob
      /\ Len(ofdm.p) = ofdm.M
      /\ UIntSub(ofdm.M \div 2, GuardWidth(ofdm.M)).hi = 0

----------------------------------------------------------------------------
(* Properties of Spec: the method, the phase constraint, the frequency and *)
(* the coefficients                                                        *)

\* C17: nco_crcq16_create with a type other than LIQUID_NCO and LIQUID_VCO
\* ends the process and hands out no oscillator (no call follows); with
\* LIQUID_NCO or LIQUID_VCO the object is live, its type is the one asked
\* for and never changes, and sine and cosine are computed by the method of
\* that type (the table for LIQUID_NCO, direct evaluation for LIQUID_VCO)
C17_MethodFollowsType ==
    /\ last.op = "create" =>
         /\ type \notin {LIQUID_NCO, LIQUID_VCO} => pc = "exit"
         /\ type \in {LIQUID_NCO, LIQUID_VCO} => pc = "live"
    /\ last.op \notin {"none", "create"} =>
         /\ last.pre.pc = "live"
         /\ type \in {LIQUID_NCO, LIQUID_VCO}
         /\ type = last.pre.o.type
    /\ last.op \in SinCosOps =>
         \E sc \in {IF type = LIQUID_NCO
                      THEN nco_crcq16_compute_sincos_nco(theta, sintab, build)
                    ELSE nco_crcq16_compute_sincos_vco(theta, last.pre.o.index)} :
           /\ sine = sc.sine
           /\ cosine = sc.cosine
           /\ index = sc.index

C17_Witness ==
    /\ last.op = "sincos"
    /\ type = LIQUID_VCO
    /\ last.pre.op = "set_phase"
    /\ sine = q16_sin(theta)
    /\ sine # nco_crcq16_compute_sincos_nco(theta, sintab, build).sine

\* C18: the phase constraint makes at most one correction (2*pi subtracted
\* from a phase above pi, else 2*pi added to a phase below -pi); whenever
\* the phase before the correction has magnitude below 2*pi the corrected
\* phase lies in (-pi, pi]; and at every call site (set_phase,
\* adjust_phase, step) the phase before the correction has magnitude below
\* 2*pi
C18_OneCorrectionSuffices ==
    (pc = "live" /\ last.op \in PhaseOps) =>
      /\ theta = (IF last.raw > q16_pi THEN Int16(last.raw - q16_2pi)
                  ELSE IF last.raw < -q16_pi THEN Int16(last.raw + q16_2pi)
                  ELSE last.raw)
      /\ Abs(last.raw) < q16_2pi => (-q16_pi < theta /\ theta <= q16_pi)
      /\ Abs(last.raw) < q16_2pi

\* the loop gain K, NCO_PLL_GAIN_DEFAULT
NCO_PLL_GAIN_DEFAULT == 1000

\* C20: after a successful pll_set_bandwidth(b), b > 0, the installed
\* coefficients are the fixed-point representations of b0 = 2K(1 + t2/2),
\* b1 = 4K, b2 = 2K(1 - t2/2), a0 = 1 + t1/2, a1 = -1 + t1/2, a2 = 0; in
\* particular b1 is 4K, b0 + b2 is 4K and a0 - a1 is 2 in units of q16_one
\* (up to one unit of rounding per coefficient)
C20_CoefficientsInFixedPoint ==
    (last.op = "pll_set_bandwidth" /\ pc = "live" /\ last.arg > 0) =>
      /\ pll_filter.b = b
      /\ pll_filter.a = a
      /\ b[2] = 4 * NCO_PLL_GAIN_DEFAULT * q16_one
      /\ Abs(b[1] + b[3] - 4 * NCO_PLL_GAIN_DEFAULT * q16_one) <= 2
      /\ Abs(a[1] - a[2] - 2 * q16_one) <= 2
      /\ a[3] = 0

----------------------------------------------------------------------------
(* Properties of FreqSpec *)

FrequencyOps == {"set_frequency", "adjust_frequency", "pll_step"}
Representable(v) == -32768 <= v /\ v <= 32767

\* the frequency a call added to, and what it added
FrequencyBefore == last.pre.o.d_theta
FilterOutput == iirfiltsos_rrrq16_execute_df1(last.pre.o.pll_filter, last.arg).y[1]

\* what set_frequency, adjust_frequency and pll_step leave alone, and what
\* get_phase and get_frequency return
FrequencyFrame ==
    /\ last.op = "set_frequency" => d_theta = last.arg
    /\ last.op \in FrequencyOps =>
         /\ theta = last.pre.o.theta
         /\ bandwidth = last.pre.o.bandwidth
         /\ sintab = create_sintab
    /\ last.op = "get_phase" => Holds(last.pre.o) /\ ret = <<theta>>
    /\ last.op = "get_frequency" => Holds(last.pre.o) /\ ret = <<d_theta>>

\* C19 as stated: set_frequency(f) stores exactly f, adjust_frequency(df)
\* leaves exactly the previous frequency plus df, pll_step(e) leaves exactly
\* the previous frequency plus the filter's output for e; none of them
\* constrains the frequency or changes phase, bandwidth or sine table;
\* get_phase and get_frequency change nothing
C19_FrequencyExactSum ==
    /\ FrequencyFrame
    /\ last.op = "adjust_frequency" => d_theta = FrequencyBefore + last.arg
    /\ last.op = "pll_step" =>
         /\ pll_filter.y[1] = FilterOutput
         /\ d_theta = FrequencyBefore + FilterOutput

\* C19, amended: the same, with the two sums exact whenever they are
\* representable in the 16-bit field (a sum outside the range is stored
\* modulo 2^16)
C19_FrequencySumIn16Bits ==
    /\ FrequencyFrame
    /\ last.op = "adjust_frequency" =>
         /\ Representable(FrequencyBefore + last.arg)
              => d_theta = FrequencyBefore + last.arg
         /\ d_theta = Int16(FrequencyBefore + last.arg)
    /\ last.op = "pll_step" =>
         /\ pll_filter.y[1] = FilterOutput
         /\ Representable(FrequencyBefore + FilterOutput)
              => d_theta = FrequencyBefore + FilterOutput
         /\ d_theta = Int16(FrequencyBefore + FilterOutput)

C19_Witness ==
    /\ last.op = "adjust_frequency"
    /\ last.pre.op = "set_frequency"
    /\ FrequencyBefore = 1000
    /\ last.arg = 32767
    /\ d_theta = 1000 + 32767 - 65536
    /\ theta = 1000

====
